---- MODULE Spec2Model ----
(***************************************************************************)
(* Model of the consistent-hash ring of src/ring/ring.go: the descriptor   *)
(* held under a sync.RWMutex, the watch loop that replaces it, and the     *)
(* readers Get / BatchGet that resolve keys against it with getInternal.   *)
(* Indices into Tokens are 0-based as in the Go code; the TLA+ sequence    *)
(* element of index i is Tokens[i + 1].                                    *)
(***************************************************************************)
EXTENDS Integers, Sequences, FiniteSets, TLC

\* ------------------------------------------------------------------ bounds
NumHashes == 2
NumIds == 2
MaxN == 2
NumReaders == 2
MaxTime == 2
heartbeatTimeout == 1
HashBits == 8

\* ------------------------------------------------------- values and types
IdNames == <<"A", "B", "C", "D", "E", "F">>
Ids == {IdNames[k] : k \in 1..NumIds}

Read == "Read"
Write == "Write"
Operations == {Read, Write}

Active == "Active"
Leaving == "Leaving"
TokenStates == {Active, Leaving}

NoErr == "nil"
ErrEmptyRing == "empty circle"

\* Token hashes 10, 20, 30, ... and keys 0, 5, 10, ..., one past the largest
\* hash: a key below, between, on and above the tokens.
HashOf(k) == 10 * k
Keys == {5 * k : k \in 0..(2 * NumHashes + 1)}
Ns == 0..MaxN

TokenDesc(h, id, st) == [Token |-> h, Ingester |-> id, State |-> st]

\* The IngesterDesc registered for node id, and the zero value a Go map
\* lookup yields for a missing key.
IngesterDesc(id) == [Hostname |-> id, Timestamp |-> 0]
ZeroIngesterDesc == [Hostname |-> "", Timestamp |-> 0]

Desc(tokens, ids) == [Tokens |-> tokens, Ingesters |-> [id \in ids |-> IngesterDesc(id)]]
EmptyDesc == Desc(<<>>, {})

Range(s) == {s[x] : x \in DOMAIN s}
TokenIds(tokens) == {tokens[x].Ingester : x \in DOMAIN tokens}

\* ---------------------------------------------------- bounded descriptors
Min(S) == CHOOSE x \in S : \A y \in S : x <= y

RECURSIVE SortedTokens(_, _)
SortedTokens(S, f) ==
    IF S = {} THEN <<>>
    ELSE LET k == Min(S)
         IN  <<TokenDesc(HashOf(k), f[k][1], f[k][2])>> \o SortedTokens(S \ {k}, f)

\* Every strictly sorted, non-empty token sequence over the bounded hashes.
TokenSeqs ==
    UNION { {SortedTokens(S, f) : f \in [S -> Ids \X TokenStates]} :
            S \in (SUBSET (1..NumHashes)) \ {{}} }

\* A descriptor is well formed when every token's ingester is registered.
WellFormed(desc) == TokenIds(desc.Tokens) \subseteq DOMAIN desc.Ingesters

\* Every descriptor over those token sequences: the ingesters registered are
\* all of the tokens' owners (well formed) or only some of them (malformed:
\* nothing in the ring validates what the watcher decodes).
Descs == UNION { {Desc(t, ids) : ids \in SUBSET TokenIds(t)} : t \in TokenSeqs }

\* The ring of the all-Active scenario.
RingActive ==
    Desc(<<TokenDesc(10, "A", Active), TokenDesc(20, "B", Active),
           TokenDesc(30, "C", Active)>>, {"A", "B", "C"})

\* The same ring with B's token Leaving.
RingLeaving ==
    Desc(<<TokenDesc(10, "A", Active), TokenDesc(20, "B", Leaving),
           TokenDesc(30, "C", Active)>>, {"A", "B", "C"})

\* The two descriptor versions of the concurrent scenario: disjoint node sets.
D1 == Desc(<<TokenDesc(10, "A", Active), TokenDesc(20, "B", Leaving)>>, {"A", "B"})
D2 == Desc(<<TokenDesc(10, "C", Active), TokenDesc(30, "C", Leaving)>>, {"C"})

\* A value handed to the watch callback: nil, or a decoded *Desc.
NilValue == [isNil |-> TRUE, desc |-> EmptyDesc]
DescValue(d) == [isNil |-> FALSE, desc |-> d]
WatchValues == {NilValue, DescValue(D1), DescValue(D2)}

\* Arguments of the calls made while the watch loop runs concurrently.
LoopKeys == {25}
LoopNs == {2}
LoopBatches == {<<5, 25>>}
LoopBatchOps == {Read}

\* Key sequences of the sequential BatchGet calls.
BatchKeys == {5, 25}
RECURSIVE SeqsUpTo(_, _)
SeqsUpTo(S, len) ==
    IF len = 0 THEN {<<>>}
    ELSE LET shorter == SeqsUpTo(S, len - 1)
         IN  shorter \cup {Append(q, x) : q \in {p \in shorter : Len(p) = len - 1}, x \in S}
Batches == SeqsUpTo(BatchKeys, 2)
BatchNs == 1..2

\* ------------------------------------------------- hash space and clock
\* math.MaxUint32, the largest token hash, at the width of the model: a hash
\* has HashBits bits here (32 in the source), beyond the integers of the model
\* checker otherwise. The arithmetic is the source's, modulo 2^HashBits.
MaxUint32 == 2^HashBits - 1

\* A uint32 holds x modulo 2^width.
uint32(x) == x % (MaxUint32 + 1)

\* Clock readings and heartbeat timestamps.
Times == 0..MaxTime

IngesterDescAt(id, ts) == [Hostname |-> id, Timestamp |-> ts]
DescAt(tokens, ts) ==
    [Tokens |-> tokens, Ingesters |-> [id \in DOMAIN ts |-> IngesterDescAt(id, ts[id])]]

\* Token hashes at both ends of the uint32 range.
ReportHashes == {0, 1, MaxUint32 - 1, MaxUint32}

RECURSIVE SortedByHash(_, _)
SortedByHash(S, f) ==
    IF S = {} THEN <<>>
    ELSE LET h == Min(S)
         IN  <<TokenDesc(h, f[h], Active)>> \o SortedByHash(S \ {h}, f)

\* Every strictly sorted token sequence over those hashes, the empty one too.
ReportTokenSeqs ==
    UNION { {SortedByHash(S, f) : f \in [S -> Ids]} : S \in SUBSET ReportHashes }

\* Every assignment of heartbeat timestamps to some of the nodes.
Heartbeats == UNION { [S -> Times] : S \in SUBSET Ids }

\* Descriptors for the reports: every token layout with fresh heartbeats, and
\* every heartbeat assignment under one token.
ReportDescs ==
    {DescAt(t, [id \in TokenIds(t) |-> 0]) : t \in ReportTokenSeqs}
    \cup {DescAt(<<TokenDesc(10, "A", Active)>>, ts) : ts \in Heartbeats}

\* ------------------------------------------------------------ sync.RWMutex
\* readers: read locks held; writer: write lock held; pending: a writer has
\* called Lock and waits for the readers to drain (new RLock calls block).
FreeMutex == [readers |-> 0, writer |-> FALSE, pending |-> FALSE]
\* An RLock that a writer does not hold back.
RLockEnabledAlways(m) == TRUE

RLockEnabled(m) == ~m.writer /\ ~m.pending
RLocked(m) == [m EXCEPT !.readers = @ + 1]
\* An RUnlock that releases every read lock held, the caller's outer one too.
RUnlockedAll(m) == [m EXCEPT !.readers = 0]

RUnlocked(m) == [m EXCEPT !.readers = @ - 1]
LockAnnounced(m) == [m EXCEPT !.pending = TRUE]
\* Lock that does not wait for the readers to drain.
LockEnabledNoWait(m) == ~m.writer
LockEnabled(m) == m.readers = 0 /\ ~m.writer
Locked(m) == [m EXCEPT !.writer = TRUE, !.pending = FALSE]
Unlocked(m) == [m EXCEPT !.writer = FALSE]

\* ------------------------------------------------------------------ search
\* The search predicate with >= for >.
tokenAtOrAfterKey(tokens, x, key) == tokens[x + 1].Token >= key

\* The predicate handed to sort.Search: Tokens[x].Token > key.
tokenAfterKey(tokens, x, key) == tokens[x + 1].Token > key

\* sort.Search(n, f): binary search for the smallest index in [i, j) at which
\* f holds, j if there is none.
RECURSIVE sortSearch(_, _, _, _)
sortSearch(tokens, key, i, j) ==
    IF i < j
    THEN LET h == (i + j) \div 2
         IN  IF ~tokenAfterKey(tokens, h, key)
             THEN sortSearch(tokens, key, h + 1, j)
             ELSE sortSearch(tokens, key, i, h)
    ELSE i

search(tokens, key) ==
    LET i == sortSearch(tokens, key, 0, Len(tokens))
    IN  IF i >= Len(tokens) THEN 0 ELSE i

\* ------------------------------------------------------------- getInternal
\* Locals of one getInternal call.
BlankLocals ==
    [n |-> 0, start |-> 0, i |-> 0, iterations |-> 0,
     distinctHosts |-> {}, ingesters |-> <<>>]

walkLocals(tokens, key, n) ==
    [n |-> n, start |-> search(tokens, key), i |-> search(tokens, key),
     iterations |-> 0, distinctHosts |-> {}, ingesters |-> <<>>]

\* A loop condition without the bound on the iterations.
walkCondUnbounded(desc, l) == Cardinality(l.distinctHosts) < l.n

\* Loop condition: len(distinctHosts) < n && iterations < len(Tokens).
walkCond(desc, l) ==
    Cardinality(l.distinctHosts) < l.n /\ l.iterations < Len(desc.Tokens)

\* A membership test that never finds the node.
alreadySeenNever(hosts, id) == FALSE

\* _, ok := distinctHosts[token.Ingester]
alreadySeen(hosts, id) == id \in hosts

\* A Leaving token that leaves the target alone.
bumpedNNever(n, state) == n

\* if token.State == Leaving { n++ ... }
bumpedN(n, state) == IF state = Leaving THEN n + 1 ELSE n

\* A Write that does not skip Leaving tokens.
skipsTokenNever(state, op) == FALSE

\* if token.State == Leaving { ...; if op == Write { continue } }
skipsToken(state, op) == state = Leaving /\ op = Write

\* r.ringDesc.Ingesters[token.Ingester]: the zero value for a missing key.
lookupIngester(desc, id) ==
    IF id \in DOMAIN desc.Ingesters THEN desc.Ingesters[id] ELSE ZeroIngesterDesc

\* The ingester put in front of those collected so far.
prependIngester(ingesters, ing) == <<ing>> \o ingesters

\* ingesters = append(ingesters, ing)
appendIngester(ingesters, ing) == Append(ingesters, ing)

\* One iteration of the loop body, with the i++ that follows it.
walkBody(desc, l, op) ==
    LET idx == l.i % Len(desc.Tokens)
        token == desc.Tokens[idx + 1]
        next == [l EXCEPT !.iterations = @ + 1, !.i = idx + 1]
    IN  IF alreadySeen(l.distinctHosts, token.Ingester)
        THEN next
        ELSE LET seen == [next EXCEPT !.distinctHosts = @ \cup {token.Ingester},
                                      !.n = bumpedN(@, token.State)]
             IN  IF skipsToken(token.State, op)
                 THEN seen
                 ELSE [seen EXCEPT
                         !.ingesters =
                             appendIngester(@, lookupIngester(desc, token.Ingester))]

RECURSIVE walk(_, _, _)
walk(desc, l, op) ==
    IF walkCond(desc, l) THEN walk(desc, walkBody(desc, l, op), op) ELSE l

\* getInternal run to completion against one descriptor.
getInternal(desc, key, n, op) ==
    IF Len(desc.Tokens) = 0
    THEN [ingesters |-> <<>>, err |-> ErrEmptyRing]
    ELSE [ingesters |-> walk(desc, walkLocals(desc.Tokens, key, n), op).ingesters,
          err |-> NoErr]

\* ------------------------------------------------------------------- state
VARIABLES
    ringDesc,   \* r.ringDesc
    mtx,        \* r.mtx
    w,          \* the goroutine running loop(): position, value in hand
    rd,         \* the calling goroutines: position, arguments, locals, results
    quit,       \* r.quit is closed
    done,       \* r.done is closed
    stop,       \* the goroutine calling Stop(): position
    now         \* the clock time.Now() reads

\* What only Stop, the end of loop() and the passing of time change.
life == <<quit, done, stop, now>>

vars == <<ringDesc, mtx, w, rd, quit, done, stop, now>>

Readers == 1..NumReaders

IdleReader ==
    [pc |-> "idle", call |-> "none", keys |-> <<>>, n0 |-> 0, op |-> Read,
     k |-> 0, key |-> 0, loc |-> BlankLocals,
     ingesters |-> <<>>, err |-> NoErr, result |-> <<>>,
     todo |-> {}, t0 |-> 0, owned |-> <<>>,
     healthy |-> 0, unhealthy |-> 0, numTokens |-> 0]

\* New: an empty descriptor, a free lock, the watch loop subscribed, the
\* channels open. w.last is history: the most recent non-nil value WatchKey
\* has handed over (the descriptor of New before any).
InitAt(desc, t) ==
    /\ ringDesc = desc
    /\ mtx = FreeMutex
    /\ w = [pc |-> "watching", value |-> NilValue, keep |-> TRUE, last |-> desc]
    /\ rd = [r \in Readers |-> IdleReader]
    /\ quit = FALSE
    /\ done = FALSE
    /\ stop = "idle"
    /\ now = t

InitWith(desc) == InitAt(desc, 0)

Init == InitWith(EmptyDesc)

\* -------------------------------------------------------------- watch loop
\* A callback without its nil check.
isNilValueNever(v) == FALSE

\* value == nil
isNilValue(v) == v.isNil

\* WatchKey hands a value to the callback.
Deliver(v) ==
    /\ w.pc = "watching"
    /\ w.keep
    /\ w' = [w EXCEPT !.pc = "callback", !.value = v,
                       !.last = IF v.isNil THEN @ ELSE v.desc]
    /\ UNCHANGED <<ringDesc, mtx, rd, life>>

\* if value == nil { log; return true }
CallbackNil ==
    /\ w.pc = "callback"
    /\ isNilValue(w.value)
    /\ w' = [w EXCEPT !.pc = "watching", !.keep = TRUE]
    /\ UNCHANGED <<ringDesc, mtx, rd, life>>

\* r.mtx.Lock(): announce the writer ...
CallbackLock ==
    /\ w.pc = "callback"
    /\ ~isNilValue(w.value)
    /\ mtx' = LockAnnounced(mtx)
    /\ w' = [w EXCEPT !.pc = "cb_wait"]
    /\ UNCHANGED <<ringDesc, rd, life>>

\* ... and take the lock once the readers have drained.
CallbackAcquire ==
    /\ w.pc = "cb_wait"
    /\ LockEnabled(mtx)
    /\ mtx' = Locked(mtx)
    /\ w' = [w EXCEPT !.pc = "cb_assign"]
    /\ UNCHANGED <<ringDesc, rd, life>>

\* An assignment that leaves the descriptor as it was.
installedKeepOld(old, v) == old

\* The descriptor after r.ringDesc = *ringDesc.
installed(old, v) == v.desc

\* r.ringDesc = *ringDesc
CallbackAssign ==
    /\ w.pc = "cb_assign"
    /\ ringDesc' = installed(ringDesc, w.value)
    /\ w' = [w EXCEPT !.pc = "cb_unlock"]
    /\ UNCHANGED <<mtx, rd, life>>

\* return true, with the deferred r.mtx.Unlock()
CallbackUnlock ==
    /\ w.pc = "cb_unlock"
    /\ mtx' = Unlocked(mtx)
    /\ w' = [w EXCEPT !.pc = "watching", !.keep = TRUE]
    /\ UNCHANGED <<ringDesc, rd, life>>

\* ----------------------------------------------------------------- readers
\* Get(key, n, op) is called.
GetCall(r, key, n, op) ==
    /\ rd[r].pc = "idle"
    /\ rd' = [rd EXCEPT ![r] = [IdleReader EXCEPT
                !.pc = "Get_RLock", !.call = "Get",
                !.keys = <<key>>, !.key = key, !.n0 = n, !.op = op]]
    /\ UNCHANGED <<ringDesc, mtx, w, life>>

\* BatchGet(keys, n, op) is called.
BatchGetCall(r, keys, n, op) ==
    /\ rd[r].pc = "idle"
    /\ rd' = [rd EXCEPT ![r] = [IdleReader EXCEPT
                !.pc = "BatchGet_RLock", !.call = "BatchGet",
                !.keys = keys, !.n0 = n, !.op = op]]
    /\ UNCHANGED <<ringDesc, mtx, w, life>>

\* Get: r.mtx.RLock(), then the call of getInternal.
GetRLock(r) ==
    /\ rd[r].pc = "Get_RLock"
    /\ RLockEnabled(mtx)
    /\ mtx' = RLocked(mtx)
    /\ rd' = [rd EXCEPT ![r].pc = "gi_RLock"]
    /\ UNCHANGED <<ringDesc, w, life>>

\* BatchGet: r.mtx.RLock(); result := make([][]IngesterDesc, len(keys)).
BatchGetRLock(r) ==
    /\ rd[r].pc = "BatchGet_RLock"
    /\ RLockEnabled(mtx)
    /\ mtx' = RLocked(mtx)
    /\ rd' = [rd EXCEPT ![r].pc = "BatchGet_loop", ![r].k = 0,
                        ![r].result = [x \in 1..Len(rd[r].keys) |-> <<>>]]
    /\ UNCHANGED <<ringDesc, w, life>>

\* for i, key := range keys: the next key goes to getInternal.
BatchGetNext(r) ==
    /\ rd[r].pc = "BatchGet_loop"
    /\ rd[r].k < Len(rd[r].keys)
    /\ rd' = [rd EXCEPT ![r].pc = "gi_RLock", ![r].key = rd[r].keys[rd[r].k + 1]]
    /\ UNCHANGED <<ringDesc, mtx, w, life>>

\* The range is exhausted: return result, nil.
BatchGetEnd(r) ==
    /\ rd[r].pc = "BatchGet_loop"
    /\ rd[r].k >= Len(rd[r].keys)
    /\ rd' = [rd EXCEPT ![r].pc = "BatchGet_RUnlock", ![r].err = NoErr]
    /\ UNCHANGED <<ringDesc, mtx, w, life>>

\* Every key's ingesters stored in the first slot.
resultSlotFirst(k) == 1

\* The slot of result in which the k-th (0-based) key's ingesters are stored.
resultSlot(k) == k + 1

\* if err != nil { return nil, err }; result[i] = ingesters
BatchGetStore(r) ==
    /\ rd[r].pc = "BatchGet_store"
    /\ rd' = IF rd[r].err # NoErr
             THEN [rd EXCEPT ![r].pc = "BatchGet_RUnlock", ![r].result = <<>>]
             ELSE [rd EXCEPT ![r].pc = "BatchGet_loop",
                             ![r].result[resultSlot(rd[r].k)] = rd[r].ingesters,
                             ![r].k = @ + 1]
    /\ UNCHANGED <<ringDesc, mtx, w, life>>

\* getInternal: r.mtx.RLock()
giRLock(r) ==
    /\ rd[r].pc = "gi_RLock"
    /\ RLockEnabled(mtx)
    /\ mtx' = RLocked(mtx)
    /\ rd' = [rd EXCEPT ![r].pc = "gi_len"]
    /\ UNCHANGED <<ringDesc, w, life>>

\* getInternal without its check for an empty ring.
ringIsEmptyNever(desc) == FALSE

\* len(r.ringDesc.Tokens) == 0
ringIsEmpty(desc) == Len(desc.Tokens) = 0

\* if len(r.ringDesc.Tokens) == 0 { return nil, ErrEmptyRing }
giEmpty(r) ==
    /\ rd[r].pc = "gi_len"
    /\ ringIsEmpty(ringDesc)
    /\ rd' = [rd EXCEPT ![r].pc = "gi_RUnlock", ![r].ingesters = <<>>,
                        ![r].err = ErrEmptyRing]
    /\ UNCHANGED <<ringDesc, mtx, w, life>>

\* ingesters, distinctHosts, start := r.search(key), iterations := 0
giSearch(r) ==
    /\ rd[r].pc = "gi_len"
    /\ ~ringIsEmpty(ringDesc)
    /\ rd' = [rd EXCEPT ![r].pc = "gi_loop",
                        ![r].loc = walkLocals(ringDesc.Tokens, rd[r].key, rd[r].n0)]
    /\ UNCHANGED <<ringDesc, mtx, w, life>>

\* One iteration of the walk, against the descriptor as it is now.
giLoop(r) ==
    /\ rd[r].pc = "gi_loop"
    /\ walkCond(ringDesc, rd[r].loc)
    /\ rd' = [rd EXCEPT ![r].loc = walkBody(ringDesc, rd[r].loc, rd[r].op)]
    /\ UNCHANGED <<ringDesc, mtx, w, life>>

\* The loop condition fails: return ingesters, nil.
giReturn(r) ==
    /\ rd[r].pc = "gi_loop"
    /\ ~walkCond(ringDesc, rd[r].loc)
    /\ rd' = [rd EXCEPT ![r].pc = "gi_RUnlock", ![r].ingesters = rd[r].loc.ingesters,
                        ![r].err = NoErr]
    /\ UNCHANGED <<ringDesc, mtx, w, life>>

\* getInternal's deferred r.mtx.RUnlock(); control returns to the caller.
giRUnlock(r) ==
    /\ rd[r].pc = "gi_RUnlock"
    /\ mtx' = RUnlocked(mtx)
    /\ rd' = [rd EXCEPT ![r].pc = IF rd[r].call = "Get" THEN "Get_RUnlock"
                                  ELSE "BatchGet_store",
                        ![r].loc = BlankLocals]
    /\ UNCHANGED <<ringDesc, w, life>>

\* Get's deferred r.mtx.RUnlock().
GetRUnlock(r) ==
    /\ rd[r].pc = "Get_RUnlock"
    /\ mtx' = RUnlocked(mtx)
    /\ rd' = [rd EXCEPT ![r].pc = "done"]
    /\ UNCHANGED <<ringDesc, w, life>>

\* BatchGet's deferred r.mtx.RUnlock().
BatchGetRUnlock(r) ==
    /\ rd[r].pc = "BatchGet_RUnlock"
    /\ mtx' = RUnlocked(mtx)
    /\ rd' = [rd EXCEPT ![r].pc = "done"]
    /\ UNCHANGED <<ringDesc, w, life>>

\* The caller has taken the results; the goroutine is free for another call.
Return(r) ==
    /\ rd[r].pc = "done"
    /\ rd' = [rd EXCEPT ![r] = IdleReader]
    /\ UNCHANGED <<ringDesc, mtx, w, life>>

\* ------------------------------------------------------------------ GetAll
\* A heartbeat test that also drops the node exactly at the timeout.
heartbeatExpiredAtTimeout(t, ingester) == t - ingester.Timestamp >= heartbeatTimeout

\* time.Now().Sub(ingester.Timestamp) > r.heartbeatTimeout, time.Now() being t
heartbeatExpired(t, ingester) == t - ingester.Timestamp > heartbeatTimeout

GetAllCall(r) ==
    /\ rd[r].pc = "idle"
    /\ rd' = [rd EXCEPT ![r] = [IdleReader EXCEPT !.pc = "GetAll_RLock", !.call = "GetAll"]]
    /\ UNCHANGED <<ringDesc, mtx, w, life>>

\* r.mtx.RLock(); ingesters := make(...); the range starts over the map. t0 is
\* history: the clock when the call took the lock.
GetAllRLock(r) ==
    /\ rd[r].pc = "GetAll_RLock"
    /\ RLockEnabled(mtx)
    /\ mtx' = RLocked(mtx)
    /\ rd' = [rd EXCEPT ![r].pc = "GetAll_range",
                        ![r].todo = DOMAIN ringDesc.Ingesters,
                        ![r].t0 = now]
    /\ UNCHANGED <<ringDesc, w, life>>

\* One iteration of the range, over any entry not yet visited: Go fixes no
\* order on a map. The clock is read in each iteration.
GetAllRange(r) ==
    /\ rd[r].pc = "GetAll_range"
    /\ \E id \in rd[r].todo :
          LET ingester == ringDesc.Ingesters[id]
          IN  rd' = [rd EXCEPT ![r].todo = @ \ {id},
                               ![r].ingesters =
                                   IF heartbeatExpired(now, ingester) THEN @
                                   ELSE Append(@, ingester)]
    /\ UNCHANGED <<ringDesc, mtx, w, life>>

\* return ingesters, and the deferred r.mtx.RUnlock()
GetAllRUnlock(r) ==
    /\ rd[r].pc = "GetAll_range"
    /\ rd[r].todo = {}
    /\ mtx' = RUnlocked(mtx)
    /\ rd' = [rd EXCEPT ![r].pc = "done"]
    /\ UNCHANGED <<ringDesc, w, life>>

\* ----------------------------------------------------------------- Collect
\* A last segment that stops at the top of the hash space.
lastSegmentNoWrap(tokens, i) == uint32(MaxUint32 - tokens[i].Token)

\* diff = (math.MaxUint32 - token.Token) + r.ringDesc.Tokens[0].Token
lastSegment(tokens, i) == uint32(uint32(MaxUint32 - tokens[i].Token) + tokens[1].Token)

\* diff = r.ringDesc.Tokens[i+1].Token - token.Token
innerSegment(tokens, i) == uint32(tokens[i + 1].Token - tokens[i].Token)

\* The segment owned by the token at position i (1-based).
segment(tokens, i) ==
    IF i = Len(tokens) THEN lastSegment(tokens, i) ELSE innerSegment(tokens, i)

\* owned[id], zero for a missing key.
ownedOf(owned, id) == IF id \in DOMAIN owned THEN owned[id] ELSE 0

\* owned[token.Ingester] = owned[token.Ingester] + diff
ownedPlus(owned, id, diff) ==
    [x \in DOMAIN owned \cup {id} |->
        IF x = id THEN uint32(ownedOf(owned, id) + diff) ELSE owned[x]]

\* The divisor of the ownership gauge: float64(math.MaxUint32).
ownershipDivisor == MaxUint32

CollectCall(r) ==
    /\ rd[r].pc = "idle"
    /\ rd' = [rd EXCEPT ![r] = [IdleReader EXCEPT !.pc = "Collect_RLock", !.call = "Collect"]]
    /\ UNCHANGED <<ringDesc, mtx, w, life>>

\* r.mtx.RLock(); owned := map[string]uint32{}
CollectRLock(r) ==
    /\ rd[r].pc = "Collect_RLock"
    /\ RLockEnabled(mtx)
    /\ mtx' = RLocked(mtx)
    /\ rd' = [rd EXCEPT ![r].pc = "Collect_owned", ![r].k = 0, ![r].owned = <<>>]
    /\ UNCHANGED <<ringDesc, w, life>>

\* One iteration of for i, token := range r.ringDesc.Tokens.
CollectOwned(r) ==
    /\ rd[r].pc = "Collect_owned"
    /\ rd[r].k < Len(ringDesc.Tokens)
    /\ LET i == rd[r].k + 1
           token == ringDesc.Tokens[i]
       IN  rd' = [rd EXCEPT ![r].k = i,
                            ![r].owned = ownedPlus(@, token.Ingester,
                                                   segment(ringDesc.Tokens, i))]
    /\ UNCHANGED <<ringDesc, mtx, w, life>>

\* The ownership gauges are sent; healthy, unhealthy := 0, 0; the range over
\* the ingesters starts.
CollectOwnership(r) ==
    /\ rd[r].pc = "Collect_owned"
    /\ rd[r].k = Len(ringDesc.Tokens)
    /\ rd' = [rd EXCEPT ![r].pc = "Collect_health",
                        ![r].todo = DOMAIN ringDesc.Ingesters,
                        ![r].t0 = now,
                        ![r].healthy = 0, ![r].unhealthy = 0]
    /\ UNCHANGED <<ringDesc, mtx, w, life>>

\* One iteration of the range over the ingesters, in any order.
CollectHealth(r) ==
    /\ rd[r].pc = "Collect_health"
    /\ \E id \in rd[r].todo :
          LET expired == heartbeatExpired(now, ringDesc.Ingesters[id])
          IN  rd' = [rd EXCEPT ![r].todo = @ \ {id},
                               ![r].healthy = IF expired THEN @ ELSE @ + 1,
                               ![r].unhealthy = IF expired THEN @ + 1 ELSE @]
    /\ UNCHANGED <<ringDesc, mtx, w, life>>

\* The healthy, unhealthy and token count gauges are sent.
CollectGauges(r) ==
    /\ rd[r].pc = "Collect_health"
    /\ rd[r].todo = {}
    /\ rd' = [rd EXCEPT ![r].pc = "Collect_RUnlock",
                        ![r].numTokens = Len(ringDesc.Tokens)]
    /\ UNCHANGED <<ringDesc, mtx, w, life>>

\* the deferred r.mtx.RUnlock()
CollectRUnlock(r) ==
    /\ rd[r].pc = "Collect_RUnlock"
    /\ mtx' = RUnlocked(mtx)
    /\ rd' = [rd EXCEPT ![r].pc = "done"]
    /\ UNCHANGED <<ringDesc, w, life>>

\* Time passes.
Tick ==
    /\ now < MaxTime
    /\ now' = now + 1
    /\ UNCHANGED <<ringDesc, mtx, w, rd, quit, done, stop>>

\* -------------------------------------------------------------------- Stop
\* A Stop that does not wait for the loop.
doneReceivedAtOnce(d) == TRUE

\* <-r.done returns once r.done is closed.
doneReceived(d) == d

\* close(r.quit)
StopClose ==
    /\ stop = "idle"
    /\ quit' = TRUE
    /\ stop' = "waiting"
    /\ UNCHANGED <<ringDesc, mtx, w, rd, done, now>>

\* <-r.done, and Stop returns
StopReturn ==
    /\ stop = "waiting"
    /\ doneReceived(done)
    /\ stop' = "returned"
    /\ UNCHANGED <<ringDesc, mtx, w, rd, quit, done, now>>

\* WatchKey returns once r.quit is closed: between two deliveries, never in
\* the middle of a callback.
WatchReturn ==
    /\ w.pc = "watching"
    /\ quit
    /\ w' = [w EXCEPT !.pc = "returning"]
    /\ UNCHANGED <<ringDesc, mtx, rd, life>>

\* defer close(r.done), and loop() is over
LoopExit ==
    /\ w.pc = "returning"
    /\ done' = TRUE
    /\ w' = [w EXCEPT !.pc = "exited"]
    /\ UNCHANGED <<ringDesc, mtx, rd, quit, stop, now>>

\* ---------------------------------------------------------- specifications
\* The ring as it runs: the watch loop and NumReaders callers, interleaved.
Next ==
    \/ \E v \in WatchValues : Deliver(v)
    \/ CallbackNil
    \/ CallbackLock
    \/ CallbackAcquire
    \/ CallbackAssign
    \/ CallbackUnlock
    \/ \E r \in Readers, key \in LoopKeys, n \in LoopNs, op \in Operations :
          GetCall(r, key, n, op)
    \/ \E r \in Readers, keys \in LoopBatches, n \in LoopNs, op \in LoopBatchOps :
          BatchGetCall(r, keys, n, op)
    \/ \E r \in Readers : GetRLock(r)
    \/ \E r \in Readers : BatchGetRLock(r)
    \/ \E r \in Readers : BatchGetNext(r)
    \/ \E r \in Readers : BatchGetEnd(r)
    \/ \E r \in Readers : BatchGetStore(r)
    \/ \E r \in Readers : giRLock(r)
    \/ \E r \in Readers : giEmpty(r)
    \/ \E r \in Readers : giSearch(r)
    \/ \E r \in Readers : giLoop(r)
    \/ \E r \in Readers : giReturn(r)
    \/ \E r \in Readers : giRUnlock(r)
    \/ \E r \in Readers : GetRUnlock(r)
    \/ \E r \in Readers : BatchGetRUnlock(r)
    \/ \E r \in Readers : Return(r)

Spec == Init /\ [][Next]_vars

\* The resolver alone: one caller, every bounded key, n and op, against any
\* bounded descriptor, the scenario rings or the empty descriptor of a new
\* ring; the descriptor stays as installed.
NextResolve ==
    \/ \E key \in Keys, n \in Ns, op \in Operations : GetCall(1, key, n, op)
    \/ \E keys \in Batches, n \in BatchNs, op \in Operations : BatchGetCall(1, keys, n, op)
    \/ GetRLock(1)
    \/ BatchGetRLock(1)
    \/ BatchGetNext(1)
    \/ BatchGetEnd(1)
    \/ BatchGetStore(1)
    \/ giRLock(1)
    \/ giEmpty(1)
    \/ giSearch(1)
    \/ giLoop(1)
    \/ giReturn(1)
    \/ giRUnlock(1)
    \/ GetRUnlock(1)
    \/ BatchGetRUnlock(1)
    \/ Return(1)

InitResolve == \E d \in Descs \cup {RingActive, RingLeaving, EmptyDesc} : InitWith(d)
SpecResolve == InitResolve /\ [][NextResolve]_vars

\* Get alone, with a caller that keeps running: a goroutine inside the walk
\* of getInternal waits for nothing and is scheduled again.
NextGet ==
    \/ \E key \in Keys, n \in Ns, op \in Operations : GetCall(1, key, n, op)
    \/ GetRLock(1)
    \/ giRLock(1)
    \/ giEmpty(1)
    \/ giSearch(1)
    \/ giLoop(1)
    \/ giReturn(1)
    \/ giRUnlock(1)
    \/ GetRUnlock(1)
    \/ Return(1)

SpecGetFair ==
    /\ InitResolve
    /\ [][NextGet]_vars
    /\ WF_vars(giLoop(1))
    /\ WF_vars(giReturn(1))

\* The whole ring with one caller: the watch loop until Stop ends it, and
\* every read operation.
NextLife ==
    \/ \E v \in WatchValues : Deliver(v)
    \/ CallbackNil
    \/ CallbackLock
    \/ CallbackAcquire
    \/ CallbackAssign
    \/ CallbackUnlock
    \/ WatchReturn
    \/ LoopExit
    \/ StopClose
    \/ StopReturn
    \/ \E key \in LoopKeys, n \in LoopNs, op \in Operations : GetCall(1, key, n, op)
    \/ \E keys \in LoopBatches, n \in LoopNs, op \in LoopBatchOps : BatchGetCall(1, keys, n, op)
    \/ GetRLock(1)
    \/ BatchGetRLock(1)
    \/ BatchGetNext(1)
    \/ BatchGetEnd(1)
    \/ BatchGetStore(1)
    \/ giRLock(1)
    \/ giEmpty(1)
    \/ giSearch(1)
    \/ giLoop(1)
    \/ giReturn(1)
    \/ giRUnlock(1)
    \/ GetRUnlock(1)
    \/ BatchGetRUnlock(1)
    \/ GetAllCall(1)
    \/ GetAllRLock(1)
    \/ GetAllRange(1)
    \/ GetAllRUnlock(1)
    \/ CollectCall(1)
    \/ CollectRLock(1)
    \/ CollectOwned(1)
    \/ CollectOwnership(1)
    \/ CollectHealth(1)
    \/ CollectGauges(1)
    \/ CollectRUnlock(1)
    \/ Return(1)

SpecLife == Init /\ [][NextLife]_vars

\* The reports alone: one caller of GetAll and Collect while time passes,
\* against any report descriptor at any starting time.
NextReport ==
    \/ Tick
    \/ GetAllCall(1)
    \/ GetAllRLock(1)
    \/ GetAllRange(1)
    \/ GetAllRUnlock(1)
    \/ CollectCall(1)
    \/ CollectRLock(1)
    \/ CollectOwned(1)
    \/ CollectOwnership(1)
    \/ CollectHealth(1)
    \/ CollectGauges(1)
    \/ CollectRUnlock(1)
    \/ Return(1)

InitReport == \E d \in ReportDescs, t \in Times : InitAt(d, t)
SpecReport == InitReport /\ [][NextReport]_vars

\* -------------------------------------------------------------- properties
\* The token met at the j-th iteration (0-based) of a walk from start.
VisitedAt(tokens, start, j) == tokens[((start + j) % Len(tokens)) + 1]

\* The iteration at which a walk of its iterations first meets a token of id
\* (its if it meets none).
FirstVisit(tokens, start, its, id) ==
    LET met == {j \in 0..(its - 1) : VisitedAt(tokens, start, j).Ingester = id}
    IN  IF met = {} THEN its ELSE Min(met)

\* Reader r has finished the walk of a getInternal call and still holds both
\* read locks: its locals and the descriptor they were computed from are in view.
WalkDone(r) == rd[r].pc = "gi_RUnlock" /\ rd[r].err = NoErr

\* Reader r has the results of a Get call in hand.
GetReturned(r) == rd[r].call = "Get" /\ rd[r].pc \in {"Get_RUnlock", "done"}

NoRepeats(s) == \A p, q \in DOMAIN s : p # q => s[p] # s[q]

NodesOf(desc) == Range(desc.Ingesters)

\* C1: whatever the interleaving of Get calls with the watch loop's updates
\* between the versions D1 and D2 (disjoint node sets), every Get result is
\* made of nodes of D1 only or of nodes of D2 only, and is what the resolution
\* of the call's arguments against one single installed version yields.
C1_NoMixedVersions ==
    \A r \in Readers :
        GetReturned(r) =>
            /\ \/ Range(rd[r].ingesters) \subseteq NodesOf(D1)
               \/ Range(rd[r].ingesters) \subseteq NodesOf(D2)
            /\ \E d \in {EmptyDesc, D1, D2} :
                  [ingesters |-> rd[r].ingesters, err |-> rd[r].err]
                      = getInternal(d, rd[r].key, rd[r].n0, rd[r].op)

\* A Get holds its read lock with a two-node result computed while the watch
\* loop waits in Lock with the other version in hand.
C1_Witness ==
    \E r \in Readers :
        /\ rd[r].call = "Get"
        /\ rd[r].pc = "Get_RUnlock"
        /\ Len(rd[r].ingesters) = 2
        /\ w.pc = "cb_wait"
        /\ w.value.desc # ringDesc

\* Reader r has walked RingLeaving for Get(15, 1, Write).
C2_Case(r) ==
    /\ WalkDone(r)
    /\ ringDesc = RingLeaving
    /\ rd[r].call = "Get"
    /\ rd[r].key = 15 /\ rd[r].n0 = 1 /\ rd[r].op = Write

\* C2 as claimed: Get(15, 1, Write) on RingLeaving starts at token 20 (B),
\* raises the target to 2, skips B and returns [C, A].
C2_Original ==
    \A r \in Readers :
        C2_Case(r) =>
            /\ rd[r].loc.start = 1
            /\ rd[r].loc.n = 2
            /\ rd[r].ingesters = <<IngesterDesc("C"), IngesterDesc("A")>>

\* C2 as amended: Get(15, 1, Write) on RingLeaving starts at token 20 (B),
\* raises the target to 2, skips B and returns [C]: the skipped node B counts
\* among the distinct hosts, so the raised target is met by one more node and
\* the walk stops after two iterations.
C2_LeavingWrite ==
    \A r \in Readers :
        C2_Case(r) =>
            /\ rd[r].loc.start = 1
            /\ rd[r].loc.n = 2
            /\ rd[r].loc.iterations = 2
            /\ rd[r].loc.distinctHosts = {"B", "C"}
            /\ rd[r].ingesters = <<IngesterDesc("C")>>

C2_Witness == \E r \in Readers : C2_Case(r)

\* C3: on a non-empty descriptor, Get(key, n, Read) returns no node twice, at
\* most n plus the number of Leaving tokens the walk met, and at most as many
\* nodes as the ring's tokens name.
C3_ReadBounds ==
    \A r \in Readers :
        (WalkDone(r) /\ rd[r].call = "Get" /\ rd[r].op = Read) =>
            LET l == rd[r].loc
                leavingMet == {j \in 0..(l.iterations - 1) :
                                 VisitedAt(ringDesc.Tokens, l.start, j).State = Leaving}
            IN  /\ NoRepeats(rd[r].ingesters)
                /\ Len(rd[r].ingesters) <= rd[r].n0 + Cardinality(leavingMet)
                /\ Len(rd[r].ingesters) <= Cardinality(TokenIds(ringDesc.Tokens))

\* The same, for the descriptors whose tokens all name registered ingesters.
C3_ReadBoundsWellFormed ==
    WellFormed(ringDesc) => C3_ReadBounds

\* Reader r is past the search of a getInternal call and holds the locks.
Searched(r) == rd[r].pc = "gi_loop" \/ WalkDone(r)

\* C4: on a non-empty strictly sorted token sequence the walk starts at the
\* first token whose hash is strictly greater than the key, and at index 0
\* when the key is greater than or equal to the largest hash.
C4_SearchStart ==
    \A r \in Readers :
        Searched(r) =>
            LET tokens == ringDesc.Tokens
                after == {x \in 0..(Len(tokens) - 1) : tokens[x + 1].Token > rd[r].key}
            IN  /\ after # {} => rd[r].loc.start = Min(after)
                /\ after = {} => rd[r].loc.start = 0
                /\ rd[r].key >= tokens[Len(tokens)].Token => rd[r].loc.start = 0

\* The key equals the hash of a token that is not the last one, and the walk
\* starts at the token after it.
C4_Witness ==
    \E r \in Readers :
        /\ Searched(r)
        /\ \E x \in 0..(Len(ringDesc.Tokens) - 2) :
              /\ ringDesc.Tokens[x + 1].Token = rd[r].key
              /\ rd[r].loc.start = x + 1

\* The position of registered node id's IngesterDesc in s (0 if absent).
PosOf(desc, s, id) ==
    LET at == {p \in DOMAIN s : s[p] = desc.Ingesters[id]}
    IN  IF at = {} THEN 0 ELSE Min(at)

C5_Case(r) ==
    /\ WalkDone(r)
    /\ ringDesc = RingActive
    /\ rd[r].call = "Get"
    /\ rd[r].key = 25 /\ rd[r].n0 = 2 /\ rd[r].op = Read

\* C5: Get returns nodes in ring-walk order: of two nodes in the result, X
\* precedes Y exactly when the walk from the start index met a token of X
\* before it met one of Y; on RingActive, Get(25, 2, Read) returns [C, A].
C5_WalkOrder ==
    \A r \in Readers :
        /\ (WalkDone(r) /\ rd[r].call = "Get") =>
              LET l == rd[r].loc
                  res == rd[r].ingesters
                  inRes == {id \in DOMAIN ringDesc.Ingesters :
                               PosOf(ringDesc, res, id) > 0}
              IN  \A X, Y \in inRes :
                     (PosOf(ringDesc, res, X) < PosOf(ringDesc, res, Y))
                        <=> (FirstVisit(ringDesc.Tokens, l.start, l.iterations, X)
                               < FirstVisit(ringDesc.Tokens, l.start, l.iterations, Y))
        /\ C5_Case(r) =>
              rd[r].ingesters = <<IngesterDesc("C"), IngesterDesc("A")>>

C5_Witness == \E r \in Readers : C5_Case(r)

\* The ids the walk of locals l first met at a token whose state is Leaving.
FirstMetLeaving(tokens, l) ==
    {id \in TokenIds(tokens) :
        LET j == FirstVisit(tokens, l.start, l.iterations, id)
        IN  j < l.iterations /\ VisitedAt(tokens, l.start, j).State = Leaving}

\* C6: a registered node that the walk first meets at a Leaving token is never
\* in the result of a Write and is in the result of a Read (of the same
\* descriptor, key and n); either way each such first meeting raises the
\* target by one.
C6_LeavingReadWrite ==
    \A r \in Readers :
        (WalkDone(r) /\ rd[r].call = "Get") =>
            LET l == rd[r].loc
                met == FirstMetLeaving(ringDesc.Tokens, l)
                readRes == getInternal(ringDesc, rd[r].key, rd[r].n0, Read).ingesters
            IN  /\ l.n = rd[r].n0 + Cardinality(met)
                /\ \A X \in met \cap DOMAIN ringDesc.Ingesters :
                      /\ rd[r].op = Write =>
                            ringDesc.Ingesters[X] \notin Range(rd[r].ingesters)
                      /\ rd[r].op = Read =>
                            ringDesc.Ingesters[X] \in Range(rd[r].ingesters)
                      /\ ringDesc.Ingesters[X] \in Range(readRes)

\* A Write has walked past a registered node first met at a Leaving token and
\* has collected another node.
C6_Witness ==
    \E r \in Readers :
        /\ WalkDone(r)
        /\ rd[r].call = "Get"
        /\ rd[r].op = Write
        /\ rd[r].ingesters # <<>>
        /\ FirstMetLeaving(ringDesc.Tokens, rd[r].loc) \cap DOMAIN ringDesc.Ingesters # {}

\* The descriptor without the tokens whose ingester is not registered.
WithoutMalformed(desc) ==
    [desc EXCEPT !.Tokens =
        SelectSeq(@, LAMBDA t : t.Ingester \in DOMAIN desc.Ingesters)]

\* C7 as claimed: on a descriptor with a token of an unregistered ingester,
\* Get does not fail, every element of its result is a NodeInfo of the nodes
\* map, and the result is that of the descriptor without the malformed tokens.
C7_Original ==
    \A r \in Readers :
        (GetReturned(r) /\ ~ringIsEmpty(ringDesc) /\ ~WellFormed(ringDesc)) =>
            /\ rd[r].err = NoErr
            /\ Range(rd[r].ingesters) \subseteq NodesOf(ringDesc)
            /\ rd[r].ingesters =
                  getInternal(WithoutMalformed(ringDesc),
                              rd[r].key, rd[r].n0, rd[r].op).ingesters

\* Reader r has the results of a BatchGet call in hand.
BatchGetReturned(r) ==
    rd[r].call = "BatchGet" /\ rd[r].pc \in {"BatchGet_RUnlock", "done"}

\* Reader r is about to release the read lock its Get or BatchGet took first:
\* the descriptor is still the one its results were computed from.
Returning(r) == rd[r].pc \in {"Get_RUnlock", "BatchGet_RUnlock"}

\* C8 as claimed: with zero tokens in the current descriptor, Get and BatchGet
\* fail with ErrEmptyRing, whatever the key, the key sequence, n and op, and
\* return no nodes.
C8_Original ==
    \A r \in Readers :
        (Returning(r) /\ Len(ringDesc.Tokens) = 0) =>
            /\ rd[r].err = ErrEmptyRing
            /\ rd[r].ingesters = <<>>
            /\ rd[r].result = <<>>

\* C8 as amended: with zero tokens in the current descriptor, Get fails with
\* ErrEmptyRing for every key, n and op, and BatchGet fails with ErrEmptyRing
\* for every non-empty key sequence; BatchGet of the empty key sequence
\* returns an empty result and no error. None of them returns a node.
C8_EmptyRing ==
    \A r \in Readers :
        (Returning(r) /\ Len(ringDesc.Tokens) = 0) =>
            /\ rd[r].ingesters = <<>>
            /\ rd[r].result = <<>>
            /\ rd[r].call = "Get" => rd[r].err = ErrEmptyRing
            /\ (rd[r].call = "BatchGet" /\ rd[r].keys # <<>>) => rd[r].err = ErrEmptyRing
            /\ (rd[r].call = "BatchGet" /\ rd[r].keys = <<>>) => rd[r].err = NoErr

\* On a ring without tokens a BatchGet of two keys has failed with
\* ErrEmptyRing.
C8_Witness ==
    /\ Len(ringDesc.Tokens) = 0
    /\ \E r \in Readers :
          /\ Returning(r) /\ rd[r].call = "BatchGet" /\ Len(rd[r].keys) = 2
          /\ rd[r].err = ErrEmptyRing

\* C9: with the descriptor unchanged, BatchGet(keys, n, op) returns as many
\* results as keys, the i-th being Get(keys[i], n, op)'s, and fails as a
\* whole, returning no results, if the resolution of any key fails.
C9_BatchGetIsGet ==
    \A r \in Readers :
        BatchGetReturned(r) =>
            LET get(x) == getInternal(ringDesc, rd[r].keys[x], rd[r].n0, rd[r].op)
            IN  IF \E x \in DOMAIN rd[r].keys : get(x).err # NoErr
                THEN rd[r].err = ErrEmptyRing /\ rd[r].result = <<>>
                ELSE /\ rd[r].err = NoErr
                     /\ Len(rd[r].result) = Len(rd[r].keys)
                     /\ \A x \in DOMAIN rd[r].keys : rd[r].result[x] = get(x).ingesters

\* A BatchGet of two keys has returned two different non-empty results.
C9_Witness ==
    \E r \in Readers :
        /\ BatchGetReturned(r)
        /\ rd[r].err = NoErr
        /\ Len(rd[r].result) = 2
        /\ rd[r].result[1] # <<>> /\ rd[r].result[2] # <<>>
        /\ rd[r].result[1] # rd[r].result[2]

\* C10: the callback's step on a nil value changes neither the descriptor nor
\* the lock and answers true, back to watching; with a nil value in hand the
\* watch loop is never in a step that takes or holds the lock; every Get
\* resolves after the step as before it.
C10_NilIsNoOp ==
    /\ [](w.value.isNil => w.pc \in {"watching", "callback"})
    /\ [][ (w.pc = "callback" /\ w.value.isNil /\ w' # w) =>
              /\ ringDesc' = ringDesc
              /\ mtx' = mtx
              /\ w'.pc = "watching"
              /\ w'.keep
              /\ \A key \in LoopKeys, n \in LoopNs, op \in Operations :
                    getInternal(ringDesc', key, n, op) = getInternal(ringDesc, key, n, op)
         ]_vars

\* A nil was delivered to a ring that holds a descriptor, the callback has
\* returned, and a Get holds a result of that descriptor.
C10_Witness ==
    /\ w.pc = "watching"
    /\ w.value.isNil
    /\ w.keep
    /\ ringDesc # EmptyDesc
    /\ \E r \in Readers : GetReturned(r) /\ rd[r].pc = "Get_RUnlock" /\ rd[r].ingesters # <<>>

\* No callback of the watch loop is in progress.
NoCallback == w.pc \in {"watching", "returning", "exited"}

\* C11: whenever no callback is in progress the descriptor is the most recent
\* non-nil value the watcher delivered (the empty descriptor of New before
\* any); a step changes the descriptor only if it is the callback's
\* assignment, and no step of Get, BatchGet, GetAll or Collect changes it.
C11_DescIsLastDelivered ==
    /\ [](NoCallback => ringDesc = w.last)
    /\ [][/\ ringDesc' # ringDesc =>
               /\ w.pc = "cb_assign"
               /\ w'.pc = "cb_unlock"
               /\ ringDesc' = w.value.desc
          /\ rd' # rd => ringDesc' = ringDesc]_vars

\* A nil value was the last delivered, after a descriptor, and Collect ran
\* to its end: the descriptor is still the one delivered before.
C11_Witness ==
    /\ w.pc = "watching"
    /\ w.value.isNil
    /\ ringDesc = D2
    /\ rd[1].call = "Collect"
    /\ rd[1].pc = "done"
    /\ rd[1].numTokens = 2

\* C12: Stop has returned only if the quit channel is closed, the watch loop
\* has exited and closed done; from then on the watch loop takes no step and
\* the descriptor never changes.
C12_StopWaitsForLoop ==
    /\ [](stop = "returned" => quit /\ done /\ w.pc = "exited")
    /\ [](done => w.pc = "exited")
    /\ [][stop = "returned" => w' = w /\ ringDesc' = ringDesc]_vars

\* Stop has returned after the loop had installed a descriptor, and a caller
\* resolves against it afterwards.
C12_Witness ==
    /\ stop = "returned"
    /\ ringDesc = D1
    /\ rd[1].call = "Get"
    /\ rd[1].pc = "Get_RUnlock"
    /\ Len(rd[1].ingesters) = 2

\* The segment of the token at position i in unbounded integers.
ExactSegment(tokens, i) ==
    IF i = Len(tokens) THEN (MaxUint32 - tokens[i].Token) + tokens[1].Token
    ELSE tokens[i + 1].Token - tokens[i].Token

\* The sum in unbounded integers of the segments of id's tokens among the
\* first k.
RECURSIVE ExactOwned(_, _, _)
ExactOwned(tokens, k, id) ==
    IF k = 0 THEN 0
    ELSE ExactOwned(tokens, k - 1, id)
         + (IF tokens[k].Ingester = id THEN ExactSegment(tokens, k) ELSE 0)

RECURSIVE SumOver(_, _)
SumOver(f, S) ==
    IF S = {} THEN 0
    ELSE LET x == CHOOSE y \in S : TRUE IN f[x] + SumOver(f, S \ {x})

\* Collect is in its range over the tokens, or has just finished it.
Owning(r) == rd[r].call = "Collect" /\ rd[r].pc = "Collect_owned"

\* C13: while Collect accumulates over a non-empty sorted token sequence,
\* every difference and every per-node sum it has computed in uint32 is the
\* value in unbounded integers, within the uint32 range (nothing wrapped);
\* when the range is over the per-node sums add up to exactly the divisor of
\* the ownership gauge, so the fractions sum to 1.
C13_OwnedSumsToDivisor ==
    \A r \in Readers :
        Owning(r) /\ ringDesc.Tokens # <<>> =>
            LET tokens == ringDesc.Tokens
                k == rd[r].k
                owned == rd[r].owned
            IN  /\ \A i \in 1..k :
                      /\ ExactSegment(tokens, i) \in 0..MaxUint32
                      /\ segment(tokens, i) = ExactSegment(tokens, i)
                /\ DOMAIN owned = {tokens[i].Ingester : i \in 1..k}
                /\ \A id \in DOMAIN owned :
                      /\ ExactOwned(tokens, k, id) \in 0..MaxUint32
                      /\ owned[id] = ExactOwned(tokens, k, id)
                /\ k = Len(tokens) => SumOver(owned, DOMAIN owned) = ownershipDivisor

\* Collect has gone over four tokens of two nodes, from hash 0 to the largest
\* hash, and both nodes own a part.
C13_Witness ==
    /\ Owning(1)
    /\ Len(ringDesc.Tokens) = 4
    /\ rd[1].k = 4
    /\ Cardinality(DOMAIN rd[1].owned) = 2
    /\ \A id \in DOMAIN rd[1].owned : rd[1].owned[id] > 0

\* The nodes of the descriptor whose heartbeat is no older than the timeout
\* at time t.
HealthyAt(t) ==
    {id \in DOMAIN ringDesc.Ingesters :
        t - ringDesc.Ingesters[id].Timestamp <= heartbeatTimeout}

\* GetAll has ranged over every node and holds its result.
GetAllRanged(r) ==
    rd[r].call = "GetAll" /\ rd[r].pc = "GetAll_range" /\ rd[r].todo = {}

\* Collect has counted every node and sent its gauges.
Collected(r) == rd[r].call = "Collect" /\ rd[r].pc = "Collect_RUnlock"

\* C14: GetAll returns registered nodes, each at most once; if the clock read
\* the same time now all through the range these are exactly the nodes with
\* now - Timestamp <= heartbeatTimeout, the node exactly at the timeout among
\* them (if the clock advanced meanwhile, they lie between the nodes healthy
\* at the end and those healthy at the start). Collect's healthy count is the
\* size of that set, and healthy + unhealthy is the number of nodes.
C14_HealthyWithinTimeout ==
    \A r \in Readers :
        /\ GetAllRanged(r) =>
              LET got == rd[r].ingesters
                  ids == {got[x].Hostname : x \in DOMAIN got}
              IN  /\ NoRepeats(got)
                  /\ \A x \in DOMAIN got :
                        /\ got[x].Hostname \in DOMAIN ringDesc.Ingesters
                        /\ got[x] = ringDesc.Ingesters[got[x].Hostname]
                  /\ HealthyAt(now) \subseteq ids
                  /\ ids \subseteq HealthyAt(rd[r].t0)
                  /\ now = rd[r].t0 => ids = HealthyAt(now)
        /\ Collected(r) =>
              /\ rd[r].healthy + rd[r].unhealthy = Cardinality(DOMAIN ringDesc.Ingesters)
              /\ Cardinality(HealthyAt(now)) <= rd[r].healthy
              /\ rd[r].healthy <= Cardinality(HealthyAt(rd[r].t0))
              /\ now = rd[r].t0 => rd[r].healthy = Cardinality(HealthyAt(now))

\* GetAll at one time now over two nodes, one exactly at the timeout and one
\* beyond it: it returns the first alone.
C14_Witness ==
    /\ GetAllRanged(1)
    /\ now = rd[1].t0
    /\ Cardinality(DOMAIN ringDesc.Ingesters) = 2
    /\ \E id \in DOMAIN ringDesc.Ingesters :
          /\ now - ringDesc.Ingesters[id].Timestamp = heartbeatTimeout
          /\ rd[1].ingesters = <<ringDesc.Ingesters[id]>>
    /\ \E id \in DOMAIN ringDesc.Ingesters :
          now - ringDesc.Ingesters[id].Timestamp > heartbeatTimeout

\* C15: on a non-empty ring Get returns no error, and unless the walk has
\* gone over every token with fewer distinct hosts than the (raised) target
\* it returns at least n elements; in that case it returns what it collected.
C15_AtLeastN ==
    \A r \in Readers :
        /\ (GetReturned(r) /\ ringDesc.Tokens # <<>>) => rd[r].err = NoErr
        /\ (rd[r].call = "Get" /\ rd[r].pc = "gi_RUnlock" /\ ringDesc.Tokens # <<>>) =>
            LET l == rd[r].loc
                exhausted == /\ l.iterations = Len(ringDesc.Tokens)
                             /\ Cardinality(l.distinctHosts) < l.n
            IN  /\ rd[r].err = NoErr
                /\ rd[r].ingesters = l.ingesters
                /\ ~exhausted => /\ Len(rd[r].ingesters) >= rd[r].n0
                                 /\ Cardinality(l.distinctHosts) >= l.n

\* A Write that met a Leaving token stopped before the last token with
\* exactly n elements.
C15_Witness ==
    /\ rd[1].call = "Get"
    /\ WalkDone(1)
    /\ rd[1].op = Write
    /\ rd[1].n0 >= 1
    /\ rd[1].loc.n > rd[1].n0
    /\ rd[1].loc.iterations < Len(ringDesc.Tokens)
    /\ Len(rd[1].ingesters) = rd[1].n0

\* Reader r has the results of a Get call and still holds the read lock it
\* resolved under.
GetHolding(r) == rd[r].call = "Get" /\ rd[r].pc = "Get_RUnlock"

\* C16: two Get calls with the same key, n and op that resolved against the
\* same descriptor (both still hold the read lock, so no update came between
\* them) have identical results, and each is what any further call with those
\* arguments computes on that descriptor, whatever the other caller did
\* meanwhile.
C16_GetIdempotent ==
    \A r, q \in Readers :
        (/\ GetHolding(r) /\ GetHolding(q)
         /\ rd[r].key = rd[q].key /\ rd[r].n0 = rd[q].n0 /\ rd[r].op = rd[q].op) =>
            /\ rd[r].ingesters = rd[q].ingesters
            /\ rd[r].err = rd[q].err
            /\ [ingesters |-> rd[r].ingesters, err |-> rd[r].err]
                   = getInternal(ringDesc, rd[r].key, rd[r].n0, rd[r].op)

\* Two callers hold the same non-empty result of the same Get.
C16_Witness ==
    /\ GetHolding(1) /\ GetHolding(2)
    /\ rd[1].key = rd[2].key /\ rd[1].n0 = rd[2].n0 /\ rd[1].op = rd[2].op
    /\ rd[1].err = NoErr
    /\ Len(rd[1].ingesters) = 2
    /\ rd[2].ingesters = rd[1].ingesters

\* The walk positions (0-based, in walk order) at which a Leaving token was
\* visited.
LeavingVisited(tokens, l) ==
    {j \in 0..(l.iterations - 1) : VisitedAt(tokens, l.start, j).State = Leaving}

\* Reader r is inside the walk of getInternal or at its end.
Walking(r) == rd[r].pc = "gi_loop" \/ WalkDone(r)

\* C17 as stated: at the end of a walk (over a descriptor whose tokens all
\* name registered nodes) the target is n plus the number of Leaving tokens
\* the walk visited, tokens of already-seen nodes included.
C17_Original ==
    \A r \in Readers :
        (WalkDone(r) /\ WellFormed(ringDesc)) =>
            rd[r].loc.n = rd[r].n0
                          + Cardinality(LeavingVisited(ringDesc.Tokens, rd[r].loc))

\* C17, amended: all through the walk the target is n plus the number of
\* nodes whose first visited token was Leaving; a Leaving token of a node
\* already seen is skipped before its state is looked at and raises nothing.
C17_FirstEncounterOnly ==
    \A r \in Readers :
        Walking(r) =>
            LET l == rd[r].loc
            IN  /\ l.n = rd[r].n0 + Cardinality(FirstMetLeaving(ringDesc.Tokens, l))
                /\ l.n <= rd[r].n0 + Cardinality(LeavingVisited(ringDesc.Tokens, l))
                /\ l.n <= rd[r].n0 + Cardinality(l.distinctHosts)

\* A walk has visited two Leaving tokens of one node and raised the target
\* once.
C17_Witness ==
    /\ WalkDone(1)
    /\ WellFormed(ringDesc)
    /\ Cardinality(LeavingVisited(ringDesc.Tokens, rd[1].loc)) = 2
    /\ Cardinality(FirstMetLeaving(ringDesc.Tokens, rd[1].loc)) = 1
    /\ Cardinality(rd[1].loc.distinctHosts) = 1
    /\ rd[1].loc.n = rd[1].n0 + 1

\* The 0-based token index one iteration visits: i % len at the loop's top.
VisitIndex(tokens, l) == (l.start + l.iterations) % Len(tokens)

\* C18: the walk never makes more iterations than there are tokens; every
\* iteration visits the next token clockwise, so no token is visited twice,
\* and raises the iteration count by one towards that bound, whatever the
\* target has become: the walk ends after at most len(Tokens) iterations, and
\* a caller that keeps running does reach that end.
C18_WalkTerminates ==
    /\ (rd[1].pc = "gi_loop") ~> WalkDone(1)
    /\ [](\A r \in Readers :
             Walking(r) =>
                 /\ rd[r].loc.iterations <= Len(ringDesc.Tokens)
                 /\ \A j1, j2 \in 0..(rd[r].loc.iterations - 1) :
                       j1 # j2 => (rd[r].loc.start + j1) % Len(ringDesc.Tokens)
                                  # (rd[r].loc.start + j2) % Len(ringDesc.Tokens))
    /\ [][\A r \in Readers :
             (rd[r].pc = "gi_loop" /\ rd'[r].pc = "gi_loop" /\ rd'[r] # rd[r]) =>
                 /\ rd'[r].loc.iterations = rd[r].loc.iterations + 1
                 /\ rd'[r].loc.i = VisitIndex(ringDesc.Tokens, rd[r].loc) + 1
                 /\ rd'[r].loc.n >= rd[r].loc.n]_vars

\* A walk has ended after visiting every token with the target raised by a
\* Leaving token and still not met.
C18_Witness ==
    /\ WalkDone(1)
    /\ rd[1].loc.iterations = Len(ringDesc.Tokens)
    /\ Len(ringDesc.Tokens) = NumHashes
    /\ rd[1].loc.n > rd[1].n0
    /\ Cardinality(rd[1].loc.distinctHosts) < rd[1].loc.n

\* Reader r holds the read lock of Get or BatchGet and waits in getInternal
\* to take it again, held back by the waiting writer.
ReaderStuck(r) ==
    /\ rd[r].pc = "gi_RLock"
    /\ mtx.readers >= 1
    /\ ~RLockEnabled(mtx)

\* The watch loop's callback waits in Lock for the readers to leave.
WriterStuck == w.pc = "cb_wait" /\ ~LockEnabled(mtx)

\* C19: no reachable state has a reader that holds the read lock and waits to
\* take it again while the writer waits for that reader.
C19_NoReaderWriterDeadlock ==
    \A r \in Readers : ~(ReaderStuck(r) /\ WriterStuck)

\* Reader r is inside BatchGet, between its RLock and its RUnlock.
InBatch(r) ==
    /\ rd[r].call = "BatchGet"
    /\ rd[r].pc \in {"BatchGet_loop", "gi_RLock", "gi_len", "gi_loop",
                     "gi_RUnlock", "BatchGet_store", "BatchGet_RUnlock"}

\* C20: while a BatchGet call is between its RLock and its RUnlock no step
\* changes the descriptor, and the keys it has resolved so far are all
\* resolved against the one descriptor that is current.
C20_BatchOneVersion ==
    /\ [](\A r \in Readers :
             InBatch(r) =>
                 \A x \in 1..rd[r].k :
                     x <= Len(rd[r].result) =>
                         rd[r].result[x] =
                             getInternal(ringDesc, rd[r].keys[x], rd[r].n0,
                                         rd[r].op).ingesters)
    /\ [][ringDesc' # ringDesc => \A r \in Readers : ~InBatch(r)]_vars

\* A BatchGet has resolved both of its keys against D1 while the watch loop
\* waits for the write lock with D2.
C20_Witness ==
    /\ InBatch(1)
    /\ rd[1].pc = "BatchGet_RUnlock"
    /\ rd[1].err = NoErr
    /\ Len(rd[1].result) = 2
    /\ \A x \in 1..2 : rd[1].result[x] # <<>>
    /\ ringDesc = D1
    /\ w.pc = "cb_wait"
    /\ w.value.desc = D2


====
